---- MODULE Spec2Model ----
(***************************************************************************)
(* A model of sync_notion.py: the paginated fetcher, the property          *)
(* normalizer, the subtopic extractor, the CV section renderer, the        *)
(* typeset escaper and the document assembler's ordering.                  *)
(*                                                                         *)
(* A text is the sequence of its characters, each a one-character string;  *)
(* a literal the renderer emits as control markup (a list open, a list     *)
(* close, the spacing directive, the item prefix, the line terminator, the *)
(* bold wrapper) is one element of the sequence.                           *)
(***************************************************************************)
EXTENDS Integers, Sequences, FiniteSets, TLC

VARIABLES
    \* render_cv_section_body
    content, raw_lines, i, in_list, result, rpc,
    \* the remote store, and query_all
    store, omits_has_more, queries, database_id, results, has_more, start_cursor, qpc,
    \* one page of sync_projects: parse_body and the intro
    body_text, lines, line_no, media_highlights, subtopics, current,
    intro_lines, intro, ppc,
    \* escape_latex applied, and applied again
    raw_text, escaped_once, escaped_twice, epc,
    \* sync_publications' sort and generate_latex_cv's two lists
    pubs, selected, other, spc,
    \* one extractor of the normalizer applied to one property
    prop, extractor, extracted, npc,
    \* get_page_body_text: the page bodies in the store, its locals, what it
    \* has asked the store, its place, and whether a listing has failed
    block_store, page_id, blocks, blocks_has_more, blocks_start_cursor,
    listings, body, bpc, listing_failed,
    \* whether a query of query_all has failed
    query_failed,
    \* main: its place, the collection it is at, the page of the collection a
    \* sync function is at and the items it has built, the files written
    \* and whether the CV has been
    mpc, step, page_no, items, written, cv_generated,
    \* the sort by Order of sync_education, sync_projects and sync_cv_only:
    \* the function, the items as built from the pages, and as sorted
    sync_fn, built, ordered, opc

renderVars == <<content, raw_lines, i, in_list, result, rpc>>
storeVars == <<store, block_store, omits_has_more>>
queryVars == <<queries, database_id, results, has_more, start_cursor, qpc, query_failed>>

projectVars == <<body_text, lines, line_no, media_highlights, subtopics, current,
                 intro_lines, intro, ppc>>

escapeVars == <<raw_text, escaped_once, escaped_twice, epc>>
sortVars == <<pubs, selected, other, spc>>

normVars == <<prop, extractor, extracted, npc>>
blockVars == <<page_id, blocks, blocks_has_more, blocks_start_cursor, listings, body, bpc,
               listing_failed>>
mainVars == <<mpc, step, page_no, items, written, cv_generated>>

orderVars == <<sync_fn, built, ordered, opc>>
vars == <<renderVars, storeVars, queryVars, projectVars, escapeVars, sortVars, normVars,
    blockVars, mainVars, orderVars>>

\* What each component leaves alone.
renderFrame == <<storeVars, queryVars, projectVars, escapeVars, sortVars, normVars,
    blockVars, mainVars, orderVars>>
queryFrame == <<storeVars, renderVars, projectVars, escapeVars, sortVars, normVars,
    blockVars, mainVars, orderVars>>
projectFrame == <<storeVars, queryVars, renderVars, escapeVars, sortVars, normVars,
    blockVars, mainVars, orderVars>>
escapeFrame == <<storeVars, queryVars, renderVars, projectVars, sortVars, normVars,
    blockVars, mainVars, orderVars>>
sortFrame == <<storeVars, queryVars, renderVars, projectVars, escapeVars, normVars,
    blockVars, mainVars, orderVars>>
normFrame == <<storeVars, queryVars, renderVars, projectVars, escapeVars, sortVars,
    blockVars, mainVars, orderVars>>
blockFrame == <<storeVars, queryVars, renderVars, projectVars, escapeVars, sortVars,
    normVars, mainVars, orderVars>>
mainFrame == <<storeVars, renderVars, projectVars, escapeVars, sortVars, normVars,
    orderVars>>
orderFrame == <<renderVars, storeVars, queryVars, projectVars, escapeVars, sortVars,
    normVars, blockVars, mainVars>>

\* Python's None.
None == 0

(***************************************************************************)
(* str methods                                                             *)
(***************************************************************************)

\* The whitespace characters str.strip() removes, among those of the inputs.
Whitespace == {" ", "\t"}

\* str.startswith
StartsWith(s, p) == Len(s) >= Len(p) /\ SubSeq(s, 1, Len(p)) = p

RECURSIVE LStrip(_)
LStrip(s) == IF s # <<>> /\ Head(s) \in Whitespace THEN LStrip(Tail(s)) ELSE s

RECURSIVE RStrip(_)
RStrip(s) ==
    IF s # <<>> /\ s[Len(s)] \in Whitespace THEN RStrip(SubSeq(s, 1, Len(s) - 1)) ELSE s

\* str.strip()
Strip(s) == RStrip(LStrip(s))

\* str.split(sep) for a one-character sep: always at least one piece.
RECURSIVE SplitAcc(_, _, _)
SplitAcc(s, sep, cur) ==
    IF s = <<>> THEN <<cur>>
    ELSE IF Head(s) = sep THEN <<cur>> \o SplitAcc(Tail(s), sep, <<>>)
    ELSE SplitAcc(Tail(s), sep, Append(cur, Head(s)))

Split(s, sep) == SplitAcc(s, sep, <<>>)

\* sep.join(parts)
RECURSIVE Join(_, _)
Join(parts, sep) ==
    IF parts = <<>> THEN <<>>
    ELSE IF Len(parts) = 1 THEN parts[1]
    ELSE parts[1] \o sep \o Join(Tail(parts), sep)

\* str.replace(old, new): non-overlapping occurrences, left to right.
RECURSIVE Replace(_, _, _)
Replace(s, old, new) ==
    IF Len(s) < Len(old) \/ old = <<>> THEN s
    ELSE IF StartsWith(s, old)
         THEN new \o Replace(SubSeq(s, Len(old) + 1, Len(s)), old, new)
         ELSE <<Head(s)>> \o Replace(Tail(s), old, new)

(***************************************************************************)
(* escape_latex                                                            *)
(***************************************************************************)

\* A mutant of replacements: the underscore is not in the table.
ReplacementsWithoutUnderscore ==
    << <<"&", <<"\\", "&">> >>,
       <<"%", <<"\\", "%">> >>,
       <<"#", <<"\\", "#">> >>,
       <<"~", <<"\\", "t", "e", "x", "t", "a", "s", "c", "i", "i", "t", "i", "l", "d", "e", "{", "}">> >>,
       <<"α", <<"$", "\\", "a", "l", "p", "h", "a", "$">> >>,
       <<"β", <<"$", "\\", "b", "e", "t", "a", "$">> >>,
       <<"γ", <<"$", "\\", "g", "a", "m", "m", "a", "$">> >>,
       <<"δ", <<"$", "\\", "d", "e", "l", "t", "a", "$">> >>,
       <<"μ", <<"$", "\\", "m", "u", "$">> >> >>

\* The replacements table, in the order the dict is iterated.
replacements ==
    << <<"&", <<"\\", "&">> >>,
       <<"%", <<"\\", "%">> >>,
       <<"#", <<"\\", "#">> >>,
       <<"_", <<"\\", "_">> >>,
       <<"~", <<"\\", "t", "e", "x", "t", "a", "s", "c", "i", "i", "t", "i", "l", "d", "e", "{", "}">> >>,
       <<"α", <<"$", "\\", "a", "l", "p", "h", "a", "$">> >>,
       <<"β", <<"$", "\\", "b", "e", "t", "a", "$">> >>,
       <<"γ", <<"$", "\\", "g", "a", "m", "m", "a", "$">> >>,
       <<"δ", <<"$", "\\", "d", "e", "l", "t", "a", "$">> >>,
       <<"μ", <<"$", "\\", "m", "u", "$">> >> >>

\* A mutant of EscapeFrom: each replacement is made a second time, on the
\* text the first has produced.
RECURSIVE EscapeFromRepeated(_, _)
EscapeFromRepeated(text, k) ==
    IF k > Len(replacements) THEN text
    ELSE LET once == Replace(text, <<replacements[k][1]>>, replacements[k][2])
         IN  EscapeFromRepeated(Replace(once, <<replacements[k][1]>>, replacements[k][2]), k + 1)

\* The loop of escape_latex from the k-th replacement on.
RECURSIVE EscapeFrom(_, _)
EscapeFrom(text, k) ==
    IF k > Len(replacements) THEN text
    ELSE EscapeFrom(Replace(text, <<replacements[k][1]>>, replacements[k][2]), k + 1)

escape_latex(text) == IF text = <<>> THEN <<>> ELSE EscapeFrom(text, 1)

(***************************************************************************)
(* render_line_with_bold                                                   *)
(***************************************************************************)

\* The end of the shortest match of \*\*.+?\*\* that starts at s (0 if none):
\* the position of the last character of the closing delimiter.
BoldEnd(t, s) ==
    IF ~(s + 1 <= Len(t) /\ t[s] = "*" /\ t[s + 1] = "*") THEN 0
    ELSE LET ends == {e \in (s + 3)..(Len(t) - 1) : t[e] = "*" /\ t[e + 1] = "*"}
         IN  IF ends = {} THEN 0
             ELSE (CHOOSE e \in ends : \A f \in ends : e <= f) + 1

\* The leftmost position at or after p where a match starts (0 if none).
BoldStart(t, p) ==
    LET starts == {s \in p..Len(t) : BoldEnd(t, s) # 0}
    IN  IF starts = {} THEN 0 ELSE CHOOSE s \in starts : \A u \in starts : s <= u

TextbfOpen == "\\textbf{"
TextbfClose == "}"

\* re.split on the bold pattern from position p on, each part rendered:
\* a delimited part emphasized and escaped, every other part escaped.
RECURSIVE RenderBoldFrom(_, _)
RenderBoldFrom(t, p) ==
    LET s == BoldStart(t, p)
    IN  IF s = 0 THEN escape_latex(SubSeq(t, p, Len(t)))
        ELSE LET e == BoldEnd(t, s)
             IN  escape_latex(SubSeq(t, p, s - 1))
                 \o <<TextbfOpen>> \o escape_latex(SubSeq(t, s + 2, e - 2)) \o <<TextbfClose>>
                 \o RenderBoldFrom(t, e + 1)

render_line_with_bold(stripped) == RenderBoldFrom(stripped, 1)

(***************************************************************************)
(* render_cv_section_body                                                  *)
(***************************************************************************)

ListOpen == <<"\\begin{itemize}[leftmargin=*, itemsep=2pt, parsep=0pt, topsep=2pt]">>
ListClose == <<"\\end{itemize}">>
VSpace == <<"\\vspace{6pt}">>
ItemPrefix == "  \\item "
Terminator == " \\\\"

Invited == <<"(", "I", "n", "v", "i", "t", "e", "d", ")">>
Awards ==
    << <<"B", "e", "s", "t", " ", "P", "o", "s", "t", "e", "r", " ", "A", "w", "a", "r", "d">>,
       <<"B", "e", "s", "t", " ", "P", "a", "p", "e", "r", " ", "A", "w", "a", "r", "d">>,
       <<"G", "r", "a", "d", "u", "a", "t", "e", " ", "S", "t", "u", "d", "e", "n", "t", " ", "A", "w", "a", "r", "d">> >>

\* The award loop of the bullet branch from the k-th award on.
RECURSIVE BoldAwards(_, _)
BoldAwards(latex_item, k) ==
    IF k > Len(Awards) THEN latex_item
    ELSE BoldAwards(
             Replace(latex_item, <<"(">> \o Awards[k] \o <<")">>,
                     <<TextbfOpen, "(">> \o Awards[k] \o <<")", TextbfClose>>),
             k + 1)

\* The bullet branch's item line.
ItemLine(stripped) ==
    LET item_text == SubSeq(stripped, 3, Len(stripped))
        escaped   == escape_latex(item_text)
        invited   == Replace(escaped, Invited, <<TextbfOpen>> \o Invited \o <<TextbfClose>>)
    IN  <<ItemPrefix>> \o BoldAwards(invited, 1)

Dash == <<"-", " ">>

\* A mutant of next_is_bullet: the lookahead stops at the line right after.
NextIsBulletNoSkip(rl, k) ==
    k + 2 <= Len(rl) /\ StartsWith(Strip(rl[k + 2]), Dash)

\* The lookahead of the text branch: whether the first line after index k
\* (0-based) that is non-empty once stripped starts with "- ".
next_is_bullet(rl, k) ==
    LET js == {j \in (k + 1)..(Len(rl) - 1) : Strip(rl[j + 1]) # <<>>}
    IN  js # {} /\ StartsWith(Strip(rl[(CHOOSE j \in js : \A h \in js : j <= h) + 1]), Dash)

\* The records of the store's pages.
Records == {"r1", "r2"}

MaxPages == 3
MaxPageSize == 2

(***************************************************************************)
(* Python values, and the normalizer's extractors                          *)
(***************************************************************************)

\* A value carries its type: None, a bool, a str (a text), a number, a list
\* (a sequence of values) or a dict (a function from keys to values).
PyNone == [t |-> "none"]
PyBool(b) == [t |-> "bool", v |-> b]
PyStr(s) == [t |-> "str", v |-> s]
PyNum(n) == [t |-> "num", v |-> n]
PyList(l) == [t |-> "list", v |-> l]
PyDict(d) == [t |-> "dict", v |-> d]
\* An exception leaves the function.
PyRaise == [t |-> "raise"]

\* The truth value of x in "if x", "not x" and "x or y".
Truthy(x) ==
    CASE x.t = "none" -> FALSE
      [] x.t = "bool" -> x.v
      [] x.t = "str"  -> Len(x.v) > 0
      [] x.t = "num"  -> x.v # 0
      [] x.t = "list" -> Len(x.v) > 0
      [] x.t = "dict" -> DOMAIN x.v # {}

\* d.get(k, default)
Get(d, k, default) == IF k \in DOMAIN d.v THEN d.v[k] ELSE default

\* x or y
Or(x, y) == IF Truthy(x) THEN x ELSE y

\* "".join(item.get("plain_text", "") for item in items)
RECURSIVE JoinPlainText(_)
JoinPlainText(fragments) ==
    IF fragments = <<>> THEN PyStr(<<>>)
    ELSE LET first == Get(Head(fragments), "plain_text", PyStr(<<>>))
             rest  == JoinPlainText(Tail(fragments))
         IN  IF first.t # "str" \/ rest.t # "str" THEN PyRaise
             ELSE PyStr(first.v \o rest.v)

get_text(p) ==
    IF ~Truthy(p) THEN PyStr(<<>>)
    ELSE LET fragments == Or(Or(Get(p, "rich_text", PyNone), Get(p, "title", PyNone)), PyList(<<>>))
         IN  JoinPlainText(fragments.v)

get_number(p) == IF ~Truthy(p) THEN PyNone ELSE Get(p, "number", PyNone)

get_select(p) ==
    IF ~Truthy(p) THEN PyStr(<<>>)
    ELSE LET sel == Get(p, "select", PyNone)
         IN  IF Truthy(sel) THEN Get(sel, "name", PyStr(<<>>)) ELSE PyStr(<<>>)

get_checkbox(p) == IF ~Truthy(p) THEN PyBool(FALSE) ELSE Get(p, "checkbox", PyBool(FALSE))

get_url(p) ==
    IF ~Truthy(p) THEN PyStr(<<>>) ELSE Or(Get(p, "url", PyStr(<<>>)), PyStr(<<>>))

get_date(p) ==
    IF ~Truthy(p) THEN PyStr(<<>>)
    ELSE LET date == Get(p, "date", PyNone)
         IN  IF ~Truthy(date) THEN PyStr(<<>>) ELSE Get(date, "start", PyStr(<<>>))

get_email(p) ==
    IF ~Truthy(p) THEN PyStr(<<>>) ELSE Or(Get(p, "email", PyStr(<<>>)), PyStr(<<>>))

\* A property bag of the given type with the given typed value.
Bag(type, value) == PyDict([k \in {"type", type} |-> IF k = "type" THEN PyStr(<<type>>) ELSE value])

\* The properties the extractors are applied to: None for a field the page
\* lacks, and bags of each type with a null, an empty and a filled value.
Props ==
    { PyNone, PyDict(<<>>),
      Bag("rich_text", PyNone), Bag("rich_text", PyList(<<>>)),
      Bag("rich_text", PyList(<<PyDict([plain_text |-> PyStr(<<"a">>)]),
                                PyDict([plain_text |-> PyStr(<<"b">>)])>>)),
      Bag("rich_text", PyList(<<PyDict([href |-> PyNone])>>)),
      Bag("title", PyNone), Bag("title", PyList(<<PyDict([plain_text |-> PyStr(<<"t">>)])>>)),
      Bag("number", PyNone), Bag("number", PyNum(0)), Bag("number", PyNum(5)),
      Bag("select", PyNone), Bag("select", PyDict([name |-> PyStr(<<"s">>)])),
      Bag("select", PyDict([color |-> PyStr(<<"c">>)])),
      Bag("checkbox", PyNone), Bag("checkbox", PyBool(TRUE)), Bag("checkbox", PyBool(FALSE)),
      Bag("url", PyNone), Bag("url", PyStr(<<>>)), Bag("url", PyStr(<<"u">>)),
      Bag("date", PyNone), Bag("date", PyDict([start |-> PyStr(<<"2", "0", "2", "0">>)])),
      Bag("date", PyDict([end |-> PyNone])),
      Bag("email", PyNone), Bag("email", PyStr(<<"e">>)) }

\* The collections in the order main syncs them, and the file of each.
Collections == {"publications", "news", "team", "honors", "education", "projects", "cv_only"}
Sequence == <<"publications", "news", "team", "honors", "education", "projects", "cv_only">>
Files == [publications |-> "publications.json", news |-> "news.json", team |-> "team.json",
          honors |-> "honors.json", education |-> "education.json",
          projects |-> "projects.json", cv_only |-> "cv_only.json"]
\* The collections whose sync function reads each page's body.
BodyCollections == {"projects", "cv_only"}

\* What a collection holds when main runs: nothing, or two pages of one
\* record each.
MainStores == { << <<>> >>, << <<"r1">>, <<"r2">> >> }

\* The blocks of a page body.
Paragraph ==
    [type |-> "paragraph",
     paragraph |-> [rich_text |-> << [plain_text |-> <<"x">>, annotations |-> [bold |-> TRUE]],
                                     [plain_text |-> <<"y">>, annotations |-> [bold |-> FALSE]] >>]]
Heading3 == [type |-> "heading_3", heading_3 |-> [rich_text |-> << [plain_text |-> <<"A">>] >>]]
Bulleted ==
    [type |-> "bulleted_list_item",
     bulleted_list_item |-> [rich_text |-> << [plain_text |-> <<"b">>,
                                               annotations |-> [bold |-> TRUE]] >>]]
Numbered == [type |-> "numbered_list_item", numbered_list_item |-> [rich_text |-> <<>>]]
Divider == [type |-> "divider"]

\* What the body of a page holds, as the listings that deliver it: nothing,
\* or two listings of blocks.
BlockStores == { << <<>> >>, << <<Paragraph, Heading3>>, <<Bulleted, Numbered, Divider>> >> }

\* The blocks get_page_body_text is applied to: each type of block that
\* bears text, and one that does not, with each of a few rich texts of bold,
\* plain and unannotated runs.
BlockTypes == {"paragraph", "heading_1", "heading_2", "heading_3",
               "bulleted_list_item", "numbered_list_item", "divider"}
BoldRun == [plain_text |-> <<"x">>, annotations |-> [bold |-> TRUE]]
PlainRun == [plain_text |-> <<"y">>, annotations |-> [bold |-> FALSE]]
BareRun == [plain_text |-> <<"z">>]
RichTexts == {<<>>, <<BoldRun>>, <<PlainRun, BoldRun>>, <<BareRun>>}
Block(btype, rich_text) ==
    [k \in {"type", btype} |-> IF k = "type" THEN btype ELSE [rich_text |-> rich_text]]
BodyBlocks == {Block(t, rt) : t \in BlockTypes, rt \in RichTexts}

\* The listings that deliver a page's body: none or one of the blocks, or
\* two of them; and how many listings a body takes.
BlockPages == {<<>>} \cup {<<b>> : b \in BodyBlocks}
              \cup {<<Block("heading_3", <<BareRun>>), Block("bulleted_list_item", <<BoldRun>>)>>}
MaxBlockPages == 2

\* What a page of a database and a listing of a body hold where only the
\* paging matters: nothing, or one element.
PaginationPages == {<<>>, <<"r1">>}
PaginationListings == {<<>>, <<Divider>>}

\* The sync functions that sort by Order.
OrderedSyncs == {"sync_education", "sync_projects", "sync_cv_only"}

\* The items sorted by Order: a name, and an Order that is a number or
\* missing.
ItemNames == {"a", "b"}
Orders == {<<>>, <<-1>>, <<0>>, <<2>>}
MaxItems == 3

\* The characters of the texts escape_latex is applied to.
TextChars == {"a", "\\", "&", "%", "#", "_", "~", "α", "β", "γ", "δ", "μ"}

MaxTextLen == 3

\* The Paper_Number values of publication records: a number, or <<>> for
\* None; and the Category values.
PaperNumbers == {<<>>, <<-1>>, <<0>>, <<3>>, <<5>>, <<10>>}
Categories == {"Selected", "Other"}

MaxPubs == 4

\* The lines a project body is made of.
BodyLines ==
    { <<>>, <<"x">>, <<"m", "e", "d", "i", "a", ":", "m">>,
      <<"#", "#", "#", " ", "A">>, <<"#", "#", "#", " ">>, <<" ", "#", "#", "#", " ", "B", " ">>,
      <<"i", "m", "a", "g", "e", ":", "i">>, <<"c", "a", "p", "t", "i", "o", "n", ":", " ", "c">>,
      <<"l", "i", "n", "k", ":", "l">> }

MaxBodyLines == 3

\* The lines a section body is made of.
RenderLines ==
    { <<>>, <<" ">>, <<"a">>, <<"-", " ", "a">>, <<"-", " ">>, <<" ", "-", " ", "b">>,
      <<"*", "*", "a", "&", "*", "*", "b">>,
      <<"-", " ", "(", "I", "n", "v", "i", "t", "e", "d", ")", "_">> }

MaxRenderLines == 3

RECURSIVE SeqsUpTo(_, _)
SeqsUpTo(S, n) ==
    IF n = 0 THEN {<<>>}
    ELSE LET shorter == SeqsUpTo(S, n - 1)
         IN  shorter \cup {Append(q, x) : q \in {r \in shorter : Len(r) = n - 1}, x \in S}

\* The state each component starts in: the component under study is given
\* its inputs, every other component is at rest.
Init(component) ==
    \* render_cv_section_body(content), its locals initialised
    /\ content \in IF component = "render"
                   THEN {Join(ls, <<"\n">>) : ls \in SeqsUpTo(RenderLines, MaxRenderLines) \ {<<>>}}
                   ELSE {<<>>}
    /\ raw_lines = IF component = "render" THEN Split(content, "\n") ELSE <<>>
    /\ result = <<>>
    /\ in_list = FALSE
    /\ i = 0
    /\ rpc = IF component = "render" THEN "loop" ELSE "idle"
    \* the remote store
    /\ store \in IF component = "query"
                 THEN [{"publications"} -> SeqsUpTo(SeqsUpTo(Records, MaxPageSize), MaxPages) \ {<<>>}]
                 ELSE IF component = "main" THEN [Collections -> MainStores]
                 ELSE IF component = "pagination"
                 THEN [{"cv_only"} -> SeqsUpTo(PaginationPages, MaxPages) \ {<<>>}]
                 ELSE {<<>>}
    /\ block_store \in IF component = "main" THEN [Records -> BlockStores]
                       ELSE IF component = "body"
                       THEN [{"r1"} -> SeqsUpTo(BlockPages, MaxBlockPages) \ {<<>>}]
                       ELSE IF component = "pagination"
                       THEN [{"r1"} -> SeqsUpTo(PaginationListings, MaxBlockPages) \ {<<>>}]
                       ELSE {<<>>}
    /\ omits_has_more \in IF component \in {"query", "main", "body", "pagination"}
                          THEN BOOLEAN ELSE {FALSE}
    \* query_all, not yet called
    /\ queries = <<>> /\ database_id = "" /\ results = <<>>
    /\ has_more = FALSE /\ start_cursor = None /\ qpc = "idle" /\ query_failed = FALSE
    \* sync_projects has a page's body text and has not yet parsed it
    /\ body_text \in IF component = "project"
                     THEN {Join(ls, <<"\n">>) : ls \in SeqsUpTo(BodyLines, MaxBodyLines) \ {<<>>}}
                     ELSE {<<>>}
    /\ lines = <<>> /\ line_no = 0 /\ media_highlights = <<>> /\ subtopics = <<>>
    /\ current = <<>> /\ intro_lines = <<>> /\ intro = <<>>
    /\ ppc = IF component = "project" THEN "call" ELSE "idle"
    \* a text not yet escaped
    /\ raw_text \in IF component = "escape" THEN SeqsUpTo(TextChars, MaxTextLen) ELSE {<<>>}
    /\ escaped_once = <<>> /\ escaped_twice = <<>>
    /\ epc = IF component = "escape" THEN "start" ELSE "idle"
    \* sync_publications has built pubs and has not yet sorted it
    /\ pubs \in IF component = "sort"
                THEN SeqsUpTo([Paper_Number : PaperNumbers, Category : Categories], MaxPubs)
                ELSE {<<>>}
    /\ selected = <<>> /\ other = <<>>
    /\ spc = IF component = "sort" THEN "built" ELSE "idle"
    \* a property of a page, as props.get(name) gives it, and no extractor applied
    /\ prop \in IF component = "normalizer" THEN Props ELSE {PyNone}
    /\ extractor = "" /\ extracted = PyNone
    /\ npc = IF component = "normalizer" THEN "start" ELSE "idle"
    \* get_page_body_text, not yet called
    /\ page_id = "" /\ blocks = <<>> /\ blocks_has_more = FALSE /\ blocks_start_cursor = None
    /\ listings = <<>> /\ body = <<>> /\ bpc = "idle" /\ listing_failed = FALSE
    \* main about to sync its first collection
    /\ mpc = IF component = "main" THEN "sync" ELSE "idle"
    /\ step = 1 /\ page_no = 0 /\ items = 0 /\ written = <<>> /\ cv_generated = FALSE
    \* a sync function has built its items and has not yet sorted them
    /\ sync_fn \in IF component = "order" THEN OrderedSyncs ELSE {""}
    /\ built \in IF component = "order"
                 THEN SeqsUpTo([Name : ItemNames, Order : Orders], MaxItems)
                 ELSE {<<>>}
    /\ ordered = <<>>
    /\ opc = IF component = "order" THEN "built" ELSE "idle"

\* The line under the cursor, stripped.
stripped == Strip(raw_lines[i + 1])

\* A mutant of RenderBlank: the spacing directive follows the list close.
RenderBlankWithVSpace ==
    /\ rpc = "loop" /\ i < Len(raw_lines)
    /\ stripped = <<>>
    /\ result' = IF in_list THEN result \o <<ListClose, VSpace>> ELSE result
    /\ in_list' = FALSE
    /\ i' = i + 1
    /\ UNCHANGED <<content, raw_lines, rpc>>
    /\ UNCHANGED renderFrame

\* An empty (whitespace-only) line: closes an open list, emits nothing else.
RenderBlank ==
    /\ rpc = "loop" /\ i < Len(raw_lines)
    /\ stripped = <<>>
    /\ result' = IF in_list THEN Append(result, ListClose) ELSE result
    /\ in_list' = FALSE
    /\ i' = i + 1
    /\ UNCHANGED <<content, raw_lines, rpc>>
    /\ UNCHANGED renderFrame

\* A mutant of RenderBullet: every bullet opens a list.
RenderBulletAlwaysOpens ==
    /\ rpc = "loop" /\ i < Len(raw_lines)
    /\ stripped # <<>> /\ StartsWith(stripped, Dash)
    /\ result' = Append(result, ListOpen) \o <<ItemLine(stripped)>>
    /\ in_list' = TRUE
    /\ i' = i + 1
    /\ UNCHANGED <<content, raw_lines, rpc>>
    /\ UNCHANGED renderFrame

\* A bullet line: opens a list if none is open and emits the item.
RenderBullet ==
    /\ rpc = "loop" /\ i < Len(raw_lines)
    /\ stripped # <<>> /\ StartsWith(stripped, Dash)
    /\ result' = (IF in_list THEN result ELSE Append(result, ListOpen))
                 \o <<ItemLine(stripped)>>
    /\ in_list' = TRUE
    /\ i' = i + 1
    /\ UNCHANGED <<content, raw_lines, rpc>>
    /\ UNCHANGED renderFrame

\* A mutant of RenderText: the line after the text, if there is one, is
\* passed over.
RenderTextSkipsLine ==
    /\ rpc = "loop" /\ i < Len(raw_lines)
    /\ stripped # <<>> /\ ~StartsWith(stripped, Dash)
    /\ LET closed     == IF in_list THEN result \o <<ListClose, VSpace>> ELSE result
           latex_line == render_line_with_bold(stripped)
       IN  result' = Append(closed,
                            IF next_is_bullet(raw_lines, i) THEN latex_line
                            ELSE Append(latex_line, Terminator))
    /\ in_list' = FALSE
    /\ i' = IF i + 2 <= Len(raw_lines) THEN i + 2 ELSE i + 1
    /\ UNCHANGED <<content, raw_lines, rpc>>
    /\ UNCHANGED renderFrame

\* Any other line: closes an open list, then emits the line with or without
\* the line terminator, as the lookahead decides.
RenderText ==
    /\ rpc = "loop" /\ i < Len(raw_lines)
    /\ stripped # <<>> /\ ~StartsWith(stripped, Dash)
    /\ LET closed     == IF in_list THEN result \o <<ListClose, VSpace>> ELSE result
           latex_line == render_line_with_bold(stripped)
       IN  result' = Append(closed,
                            IF next_is_bullet(raw_lines, i) THEN latex_line
                            ELSE Append(latex_line, Terminator))
    /\ in_list' = FALSE
    /\ i' = i + 1
    /\ UNCHANGED <<content, raw_lines, rpc>>
    /\ UNCHANGED renderFrame

\* A mutant of RenderEnd: the list still open at end of input stays open.
RenderEndNoClose ==
    /\ rpc = "loop" /\ i >= Len(raw_lines)
    /\ rpc' = "done"
    /\ UNCHANGED <<content, raw_lines, i, in_list, result>>
    /\ UNCHANGED renderFrame

\* End of input: a list still open is closed, and the lines are returned.
RenderEnd ==
    /\ rpc = "loop" /\ i >= Len(raw_lines)
    /\ result' = IF in_list THEN Append(result, ListClose) ELSE result
    /\ in_list' = FALSE
    /\ rpc' = "done"
    /\ UNCHANGED <<content, raw_lines, i>>
    /\ UNCHANGED renderFrame

RenderNext == RenderBlank \/ RenderBullet \/ RenderText \/ RenderEnd

(***************************************************************************)
(* The remote store and query_all                                          *)
(***************************************************************************)

\* The store holds, per database, the pages it delivers, each a sequence of
\* records. A cursor is the number of the page it points at (2 or more).
Page(db, cursor) == IF cursor = None THEN 1 ELSE cursor

\* notion.databases.query: the response to a query with the given cursor.
\* The last page's response may leave has_more out.
Response(db, cursor) ==
    LET k    == Page(db, cursor)
        last == k >= Len(store[db])
        resp == [results |-> store[db][k], next_cursor |-> IF last THEN None ELSE k + 1]
    IN  IF last /\ omits_has_more THEN resp
        ELSE [results |-> resp.results, next_cursor |-> resp.next_cursor, has_more |-> ~last]

\* query_all is entered: its locals are initialised.
QueryCall(db) ==
    /\ qpc = "idle"
    /\ database_id' = db
    /\ results' = <<>>
    /\ has_more' = TRUE
    /\ start_cursor' = None
    /\ queries' = <<>>
    /\ qpc' = "loop"
    /\ UNCHANGED query_failed

\* A mutant of QueryPage: the page's records are put before those collected.
QueryPagePrepend ==
    /\ qpc = "loop" /\ has_more
    /\ LET response == Response(database_id, start_cursor)
       IN  /\ results' = response.results \o results
           /\ has_more' = (IF "has_more" \in DOMAIN response THEN response.has_more ELSE FALSE)
           /\ start_cursor' = response.next_cursor
    /\ queries' = Append(queries, start_cursor)
    /\ UNCHANGED <<database_id, qpc, query_failed>>
    /\ UNCHANGED queryFrame

\* One turn of the loop: a query, with the cursor if there is one, and the
\* response's records appended.
QueryPage ==
    /\ qpc = "loop" /\ has_more
    /\ LET response == Response(database_id, start_cursor)
       IN  /\ results' = results \o response.results
           /\ has_more' = (IF "has_more" \in DOMAIN response THEN response.has_more ELSE FALSE)
           /\ start_cursor' = response.next_cursor
    /\ queries' = Append(queries, start_cursor)
    /\ UNCHANGED <<database_id, qpc, query_failed>>
    /\ UNCHANGED queryFrame

\* A mutant of QueryFail: the failure is swallowed and the records collected
\* so far are returned.
QueryFailPartial ==
    /\ qpc = "loop" /\ has_more
    /\ qpc' = "returned"
    /\ query_failed' = TRUE
    /\ queries' = Append(queries, start_cursor)
    /\ UNCHANGED <<database_id, results, has_more, start_cursor>>
    /\ UNCHANGED queryFrame

\* The query fails: the exception leaves query_all.
QueryFail ==
    /\ qpc = "loop" /\ has_more
    /\ qpc' = "raised"
    /\ query_failed' = TRUE
    /\ queries' = Append(queries, start_cursor)
    /\ UNCHANGED <<database_id, results, has_more, start_cursor>>
    /\ UNCHANGED queryFrame

\* The loop is left and the records are returned.
QueryReturn ==
    /\ qpc = "loop" /\ ~has_more
    /\ qpc' = "returned"
    /\ UNCHANGED <<queries, database_id, results, has_more, start_cursor, query_failed>>
    /\ UNCHANGED queryFrame

\* query_all is called on one database.
QueryStart == QueryCall("publications") /\ UNCHANGED queryFrame

QueryNext ==
    \/ QueryStart
    \/ QueryPage
    \/ QueryFail
    \/ QueryReturn

SpecQuery == Init("query") /\ [][QueryNext]_vars

\* The concatenation of pages, first to last.
RECURSIVE Concat(_)
Concat(pages) == IF pages = <<>> THEN <<>> ELSE Head(pages) \o Concat(Tail(pages))

\* C2: when query_all returns, its result is the concatenation of the pages
\* the store delivered, in delivery order and page-internal order.
C2_QueryAllConcatenates ==
    qpc = "returned" => results = Concat(store[database_id])

\* C2 witness: query_all returned the records of three pages, the first and
\* the last of which differ.
C2_Witness ==
    /\ qpc = "returned"
    /\ Len(store[database_id]) = 3
    /\ store[database_id][1] = <<"r1", "r2">>
    /\ store[database_id][3] = <<"r2">>
    /\ Len(results) >= 4

SpecRender == Init("render") /\ [][RenderNext]_vars

\* A turn of the while loop as its condition and its counter show it: the
\* counter is below the number of lines and goes up by one, or it is not and
\* the loop is left.
RenderTurn ==
    /\ rpc = "loop"
    /\ \/ i < Len(raw_lines) /\ i' = i + 1 /\ rpc' = rpc
       \/ i >= Len(raw_lines) /\ i' = i /\ rpc' = "done"

\* The loop has no other work between its turns, so it takes the next one
\* while there is one to take.
SpecRenderFair == SpecRender /\ WF_<<i, rpc>>(RenderTurn)

(***************************************************************************)
(* parse_body, and the intro of sync_projects                              *)
(***************************************************************************)

MediaMark == <<"m", "e", "d", "i", "a", ":">>
HeadingMark == <<"#", "#", "#", " ">>
ImageMark == <<"i", "m", "a", "g", "e", ":">>
CaptionMark == <<"c", "a", "p", "t", "i", "o", "n", ":">>
LinkMark == <<"l", "i", "n", "k", ":">>

\* s[len(mark):].strip()
AfterMark(s, mark) == Strip(SubSeq(s, Len(mark) + 1, Len(s)))

\* A mutant of NewSubtopic: the link field is left out.
NewSubtopicWithoutLink(title) == [title |-> title, image |-> <<>>, caption |-> <<>>]

\* The subtopic a heading line opens. The open subtopic, current, is a
\* sequence: empty for None, else the one dict.
NewSubtopic(title) == [title |-> title, image |-> <<>>, caption |-> <<>>, link |-> <<>>]

\* A mutant of CloseCurrent: the open subtopic is dropped.
CloseCurrentDropped(subs, cur) == subs

\* if current: subtopics.append(current)
CloseCurrent(subs, cur) == IF cur # <<>> THEN Append(subs, cur[1]) ELSE subs

\* parse_body is entered: an empty text returns at once, any other is split.
ParseCall ==
    /\ ppc = "call"
    /\ IF body_text = <<>>
       THEN /\ ppc' = "parsed"
            /\ UNCHANGED lines
       ELSE /\ ppc' = "parse"
            /\ lines' = Split(body_text, "\n")
    /\ media_highlights' = <<>>
    /\ subtopics' = <<>>
    /\ current' = <<>>
    /\ line_no' = 0
    /\ UNCHANGED <<body_text, intro_lines, intro>>
    /\ UNCHANGED projectFrame

\* A mutant of ParseLine: an image line met while no subtopic is open opens
\* an untitled one.
ParseLineImageOpens ==
    /\ ppc = "parse" /\ line_no < Len(lines)
    /\ LET s == Strip(lines[line_no + 1])
       IN  IF StartsWith(s, MediaMark)
           THEN /\ media_highlights' = AfterMark(s, MediaMark)
                /\ UNCHANGED <<subtopics, current>>
           ELSE IF StartsWith(s, HeadingMark)
           THEN /\ subtopics' = CloseCurrent(subtopics, current)
                /\ current' = <<NewSubtopic(Strip(SubSeq(s, 5, Len(s))))>>
                /\ UNCHANGED media_highlights
           ELSE IF StartsWith(s, ImageMark)
           THEN /\ current' = <<[(IF current # <<>> THEN current[1] ELSE NewSubtopic(<<>>))
                                    EXCEPT !.image = AfterMark(s, ImageMark)]>>
                /\ UNCHANGED <<media_highlights, subtopics>>
           ELSE IF StartsWith(s, CaptionMark) /\ current # <<>>
           THEN /\ current' = <<[current[1] EXCEPT !.caption = AfterMark(s, CaptionMark)]>>
                /\ UNCHANGED <<media_highlights, subtopics>>
           ELSE IF StartsWith(s, LinkMark) /\ current # <<>>
           THEN /\ current' = <<[current[1] EXCEPT !.link = AfterMark(s, LinkMark)]>>
                /\ UNCHANGED <<media_highlights, subtopics>>
           ELSE UNCHANGED <<media_highlights, subtopics, current>>
    /\ line_no' = line_no + 1
    /\ UNCHANGED <<body_text, lines, intro_lines, intro, ppc>>
    /\ UNCHANGED projectFrame

\* One turn of parse_body's loop, on the line after line_no.
ParseLine ==
    /\ ppc = "parse" /\ line_no < Len(lines)
    /\ LET s == Strip(lines[line_no + 1])
       IN  IF StartsWith(s, MediaMark)
           THEN /\ media_highlights' = AfterMark(s, MediaMark)
                /\ UNCHANGED <<subtopics, current>>
           ELSE IF StartsWith(s, HeadingMark)
           THEN /\ subtopics' = CloseCurrent(subtopics, current)
                /\ current' = <<NewSubtopic(Strip(SubSeq(s, 5, Len(s))))>>
                /\ UNCHANGED media_highlights
           ELSE IF StartsWith(s, ImageMark) /\ current # <<>>
           THEN /\ current' = <<[current[1] EXCEPT !.image = AfterMark(s, ImageMark)]>>
                /\ UNCHANGED <<media_highlights, subtopics>>
           ELSE IF StartsWith(s, CaptionMark) /\ current # <<>>
           THEN /\ current' = <<[current[1] EXCEPT !.caption = AfterMark(s, CaptionMark)]>>
                /\ UNCHANGED <<media_highlights, subtopics>>
           ELSE IF StartsWith(s, LinkMark) /\ current # <<>>
           THEN /\ current' = <<[current[1] EXCEPT !.link = AfterMark(s, LinkMark)]>>
                /\ UNCHANGED <<media_highlights, subtopics>>
           ELSE UNCHANGED <<media_highlights, subtopics, current>>
    /\ line_no' = line_no + 1
    /\ UNCHANGED <<body_text, lines, intro_lines, intro, ppc>>
    /\ UNCHANGED projectFrame

\* End of input: the subtopic still open is closed, and parse_body returns.
ParseEnd ==
    /\ ppc = "parse" /\ line_no >= Len(lines)
    /\ subtopics' = CloseCurrent(subtopics, current)
    /\ ppc' = "parsed"
    /\ UNCHANGED <<body_text, lines, line_no, media_highlights, current, intro_lines, intro>>
    /\ UNCHANGED projectFrame

\* A mutant of IsMarker: only a media line ends the intro.
IsMarkerMediaOnly(s) == StartsWith(s, MediaMark)

\* The lines that end the intro.
IsMarker(s) == StartsWith(s, MediaMark) \/ StartsWith(s, HeadingMark)

\* sync_projects starts on the intro: an empty text has an empty intro.
IntroCall ==
    /\ ppc = "parsed"
    /\ intro_lines' = <<>>
    /\ intro' = <<>>
    /\ line_no' = 0
    /\ IF body_text = <<>>
       THEN /\ ppc' = "done"
            /\ UNCHANGED lines
       ELSE /\ ppc' = "intro"
            /\ lines' = Split(body_text, "\n")
    /\ UNCHANGED <<body_text, media_highlights, subtopics, current>>
    /\ UNCHANGED projectFrame

\* One turn of the intro loop on a line that is no marker: the line is
\* kept, stripped, unless it is empty.
IntroLine ==
    /\ ppc = "intro" /\ line_no < Len(lines)
    /\ LET s == Strip(lines[line_no + 1])
       IN  /\ ~IsMarker(s)
           /\ intro_lines' = IF s # <<>> THEN Append(intro_lines, s) ELSE intro_lines
    /\ line_no' = line_no + 1
    /\ UNCHANGED <<body_text, lines, media_highlights, subtopics, current, intro, ppc>>
    /\ UNCHANGED projectFrame

\* The loop ends, at a marker line or at the end of the text, and the kept
\* lines are joined.
IntroEnd ==
    /\ ppc = "intro"
    /\ IF line_no < Len(lines) THEN IsMarker(Strip(lines[line_no + 1])) ELSE TRUE
    /\ intro' = Join(intro_lines, <<" ">>)
    /\ ppc' = "done"
    /\ UNCHANGED <<body_text, lines, line_no, media_highlights, subtopics, current, intro_lines>>
    /\ UNCHANGED projectFrame

ProjectNext == ParseCall \/ ParseLine \/ ParseEnd \/ IntroCall \/ IntroLine \/ IntroEnd

SpecProject == Init("project") /\ [][ProjectNext]_vars

(***************************************************************************)
(* get_page_body_text                                                      *)
(***************************************************************************)

\* notion.blocks.children.list: the response to a listing with the given
\* cursor. The last listing's response may leave has_more out.
BlocksResponse(id, cursor) ==
    LET k    == IF cursor = None THEN 1 ELSE cursor
        last == k >= Len(block_store[id])
        resp == [results |-> block_store[id][k], next_cursor |-> IF last THEN None ELSE k + 1]
    IN  IF last /\ omits_has_more THEN resp
        ELSE [results |-> resp.results, next_cursor |-> resp.next_cursor, has_more |-> ~last]

heading_prefix(btype) ==
    CASE btype = "heading_1" -> <<"#", " ">>
      [] btype = "heading_2" -> <<"#", "#", " ">>
      [] btype = "heading_3" -> <<"#", "#", "#", " ">>
      [] OTHER -> <<>>

\* block.get(btype, {}).get("rich_text", [])
RichText(block, btype) ==
    IF btype \in DOMAIN block /\ "rich_text" \in DOMAIN block[btype]
    THEN block[btype].rich_text ELSE <<>>

\* rt.get("plain_text", "")
PlainText(rt) == IF "plain_text" \in DOMAIN rt THEN rt.plain_text ELSE <<>>

\* rt.get("annotations", {}).get("bold"), as a truth value
IsBold(rt) ==
    /\ "annotations" \in DOMAIN rt
    /\ "bold" \in DOMAIN rt.annotations
    /\ rt.annotations.bold

\* The line of a paragraph or heading: its fragments, the bold ones between
\* pairs of asterisks.
RECURSIVE MarkedText(_)
MarkedText(rich_text) ==
    IF rich_text = <<>> THEN <<>>
    ELSE LET rt == Head(rich_text)
         IN  (IF IsBold(rt) THEN <<"*", "*">> \o PlainText(rt) \o <<"*", "*">>
              ELSE PlainText(rt)) \o MarkedText(Tail(rich_text))

\* The text of a list item: its fragments, unmarked.
RECURSIVE UnmarkedText(_)
UnmarkedText(rich_text) ==
    IF rich_text = <<>> THEN <<>>
    ELSE PlainText(Head(rich_text)) \o UnmarkedText(Tail(rich_text))

\* The line a block becomes.
BlockLine(block) ==
    LET btype == IF "type" \in DOMAIN block THEN block.type ELSE ""
    IN  IF btype \in {"paragraph", "heading_1", "heading_2", "heading_3"}
        THEN heading_prefix(btype) \o MarkedText(RichText(block, btype))
        ELSE IF btype = "bulleted_list_item"
        THEN <<"-", " ">> \o UnmarkedText(RichText(block, btype))
        ELSE IF btype = "numbered_list_item"
        THEN <<"1", ".", " ">> \o UnmarkedText(RichText(block, btype))
        ELSE <<>>

\* get_page_body_text is entered: its locals are initialised.
BlocksCall(id) ==
    /\ bpc = "idle"
    /\ page_id' = id
    /\ blocks' = <<>>
    /\ blocks_has_more' = TRUE
    /\ blocks_start_cursor' = None
    /\ listings' = <<>>
    /\ bpc' = "loop"
    /\ UNCHANGED <<body, listing_failed>>

\* A mutant of BlocksPage: the loop stops after its first listing.
BlocksPageOnce ==
    /\ bpc = "loop" /\ blocks_has_more
    /\ LET response == BlocksResponse(page_id, blocks_start_cursor)
       IN  /\ blocks' = blocks \o response.results
           /\ blocks_has_more' = FALSE
           /\ blocks_start_cursor' = response.next_cursor
    /\ listings' = Append(listings, blocks_start_cursor)
    /\ UNCHANGED <<page_id, body, bpc, listing_failed>>
    /\ UNCHANGED blockFrame

\* One turn of the loop: a listing, with the cursor if there is one, and the
\* response's blocks appended.
BlocksPage ==
    /\ bpc = "loop" /\ blocks_has_more
    /\ LET response == BlocksResponse(page_id, blocks_start_cursor)
       IN  /\ blocks' = blocks \o response.results
           /\ blocks_has_more' = (IF "has_more" \in DOMAIN response THEN response.has_more ELSE FALSE)
           /\ blocks_start_cursor' = response.next_cursor
    /\ listings' = Append(listings, blocks_start_cursor)
    /\ UNCHANGED <<page_id, body, bpc, listing_failed>>
    /\ UNCHANGED blockFrame

\* The listing fails: the exception leaves get_page_body_text.
BlocksFail ==
    /\ bpc = "loop" /\ blocks_has_more
    /\ bpc' = "raised"
    /\ listing_failed' = TRUE
    /\ listings' = Append(listings, blocks_start_cursor)
    /\ UNCHANGED <<page_id, blocks, blocks_has_more, blocks_start_cursor, body>>
    /\ UNCHANGED blockFrame

\* The loop is left: each block becomes a line, and the lines joined are
\* returned.
BlocksReturn ==
    /\ bpc = "loop" /\ ~blocks_has_more
    /\ body' = Join([n \in 1..Len(blocks) |-> BlockLine(blocks[n])], <<"\n">>)
    /\ bpc' = "returned"
    /\ UNCHANGED <<page_id, blocks, blocks_has_more, blocks_start_cursor, listings, listing_failed>>
    /\ UNCHANGED blockFrame

\* get_page_body_text is called on one page.
BodyStart == BlocksCall("r1") /\ UNCHANGED blockFrame

BodyNext ==
    \/ BodyStart
    \/ BlocksPage
    \/ BlocksFail
    \/ BlocksReturn

SpecBody == Init("body") /\ [][BodyNext]_vars

(***************************************************************************)
(* The two pagination loops, one after the other                           *)
(***************************************************************************)

\* query_all is called on the database of the CV sections.
PaginationQueryStart == QueryCall("cv_only") /\ UNCHANGED queryFrame

\* query_all has returned, and get_page_body_text is called on a page.
PaginationBodyStart == qpc = "returned" /\ BodyStart

PaginationNext ==
    \/ PaginationQueryStart
    \/ QueryPage
    \/ QueryFail
    \/ QueryReturn
    \/ PaginationBodyStart
    \/ BlocksPage
    \/ BlocksFail
    \/ BlocksReturn

SpecPagination == Init("pagination") /\ [][PaginationNext]_vars

\* The loops have no other work between their turns, so each goes on while
\* it can.
SpecPaginationFair == SpecPagination /\ WF_vars(PaginationNext)

(***************************************************************************)
(* main                                                                    *)
(***************************************************************************)

\* The collection main is at.
collection == Sequence[step]

\* A sync function is called and calls query_all on its database.
MainSync ==
    /\ mpc = "sync" /\ step <= Len(Sequence)
    /\ QueryCall(collection)
    /\ mpc' = "query"
    /\ page_no' = 0
    /\ items' = 0
    /\ UNCHANGED <<step, written, cv_generated>>
    /\ UNCHANGED <<blockVars, mainFrame>>

\* query_all has returned the pages: the sync function starts on them.
MainFetched ==
    /\ mpc = "query" /\ qpc = "returned"
    /\ qpc' = "idle"
    /\ mpc' = "pages"
    /\ UNCHANGED <<queries, database_id, results, has_more, start_cursor, query_failed>>
    /\ UNCHANGED <<step, page_no, items, written, cv_generated>>
    /\ UNCHANGED <<blockVars, mainFrame>>

\* One turn of a sync function's loop where the item is built from the
\* page's properties alone.
MainItem ==
    /\ mpc = "pages" /\ page_no < Len(results)
    /\ collection \notin BodyCollections
    /\ items' = items + 1
    /\ page_no' = page_no + 1
    /\ UNCHANGED <<mpc, step, written, cv_generated>>
    /\ UNCHANGED <<queryVars, blockVars, mainFrame>>

\* One turn of the loop of sync_projects or sync_cv_only: the page's body is
\* asked for.
MainBodyCall ==
    /\ mpc = "pages" /\ page_no < Len(results)
    /\ collection \in BodyCollections
    /\ BlocksCall(results[page_no + 1])
    /\ mpc' = "body"
    /\ UNCHANGED <<step, page_no, items, written, cv_generated>>
    /\ UNCHANGED <<queryVars, mainFrame>>

\* get_page_body_text has returned: the item is built.
MainBodyItem ==
    /\ mpc = "body" /\ bpc = "returned"
    /\ bpc' = "idle"
    /\ items' = items + 1
    /\ page_no' = page_no + 1
    /\ mpc' = "pages"
    /\ UNCHANGED <<page_id, blocks, blocks_has_more, blocks_start_cursor, listings, body,
                   listing_failed>>
    /\ UNCHANGED <<step, written, cv_generated>>
    /\ UNCHANGED <<queryVars, mainFrame>>

\* The sync function returns its items and write_json writes them to the
\* collection's file; main goes on to the next collection.
MainWrite ==
    /\ mpc = "pages" /\ page_no >= Len(results)
    /\ written' = Append(written, [file |-> Files[collection], items |-> items])
    /\ step' = step + 1
    /\ mpc' = "sync"
    /\ UNCHANGED <<page_no, items, cv_generated>>
    /\ UNCHANGED <<queryVars, blockVars, mainFrame>>

\* Every collection is written: generate_latex_cv writes the CV.
MainGenerate ==
    /\ mpc = "sync" /\ step > Len(Sequence)
    /\ cv_generated' = TRUE
    /\ mpc' = "done"
    /\ UNCHANGED <<step, page_no, items, written>>
    /\ UNCHANGED <<queryVars, blockVars, mainFrame>>

\* An exception has left query_all or get_page_body_text: nothing catches
\* it, and it ends the run.
MainAbort ==
    /\ \/ mpc = "query" /\ qpc = "raised"
       \/ mpc = "body" /\ bpc = "raised"
    /\ mpc' = "aborted"
    /\ UNCHANGED <<step, page_no, items, written, cv_generated>>
    /\ UNCHANGED <<queryVars, blockVars, mainFrame>>

MainNext ==
    \/ MainSync
    \/ QueryPage
    \/ QueryFail
    \/ QueryReturn
    \/ MainFetched
    \/ MainItem
    \/ MainBodyCall
    \/ BlocksPage
    \/ BlocksFail
    \/ BlocksReturn
    \/ MainBodyItem
    \/ MainWrite
    \/ MainGenerate
    \/ MainAbort

SpecMain == Init("main") /\ [][MainNext]_vars

\* A remote call of this run has failed.
Failed == query_failed \/ listing_failed

\* The files of the collections before the one main is at.
FilesBefore(n) == [k \in 1..(n - 1) |-> Files[Sequence[k]]]

\* The names of the files written, in the order written.
WrittenFiles == [k \in 1..Len(written) |-> written[k].file]

\* C5: once a remote call has failed, the files written are those of the
\* collections before the one being fetched, so neither its file nor a later
\* one is written, the CV is not generated, and from then on no remote call
\* is made, no file is written and the CV is not generated.
C5_AbortOnFailure ==
    /\ [](Failed => /\ WrittenFiles = FilesBefore(step)
                    /\ Files[collection] \notin {written[k].file : k \in 1..Len(written)}
                    /\ ~cv_generated
                    /\ mpc \in {"query", "body", "aborted"})
    /\ [][Failed => UNCHANGED <<queries, listings, written, cv_generated>>]_vars

\* A run that has written files, has collected the records of a first page
\* and fails on the second, and a run that fails listing a page's body.
C5_Witness ==
    /\ mpc = "aborted"
    /\ written # <<>>
    /\ \/ query_failed /\ results # <<>> /\ Len(queries) = 2
       \/ listing_failed /\ blocks # <<>> /\ Len(written) >= 5

(***************************************************************************)
(* One extractor applied to one property                                   *)
(***************************************************************************)

Extracted(name, value) ==
    /\ npc = "start"
    /\ extractor' = name
    /\ extracted' = value
    /\ npc' = "done"
    /\ UNCHANGED prop
    /\ UNCHANGED normFrame

ApplyGetText == Extracted("get_text", get_text(prop))
ApplyGetNumber == Extracted("get_number", get_number(prop))
ApplyGetSelect == Extracted("get_select", get_select(prop))
ApplyGetCheckbox == Extracted("get_checkbox", get_checkbox(prop))
ApplyGetUrl == Extracted("get_url", get_url(prop))
ApplyGetDate == Extracted("get_date", get_date(prop))
ApplyGetEmail == Extracted("get_email", get_email(prop))

NormalizerNext ==
    \/ ApplyGetText \/ ApplyGetNumber \/ ApplyGetSelect \/ ApplyGetCheckbox
    \/ ApplyGetUrl \/ ApplyGetDate \/ ApplyGetEmail

SpecNormalizer == Init("normalizer") /\ [][NormalizerNext]_vars

(***************************************************************************)
(* escape_latex applied to a text, and to its own result                   *)
(***************************************************************************)

EscapeOnce ==
    /\ epc = "start"
    /\ escaped_once' = escape_latex(raw_text)
    /\ epc' = "once"
    /\ UNCHANGED <<raw_text, escaped_twice>>
    /\ UNCHANGED escapeFrame

EscapeTwice ==
    /\ epc = "once"
    /\ escaped_twice' = escape_latex(escaped_once)
    /\ epc' = "done"
    /\ UNCHANGED <<raw_text, escaped_once>>
    /\ UNCHANGED escapeFrame

EscapeNext == EscapeOnce \/ EscapeTwice

SpecEscape == Init("escape") /\ [][EscapeNext]_vars

(***************************************************************************)
(* The publication sorts                                                   *)
(***************************************************************************)

\* key=lambda x: x.get("Paper_Number") or 0
PaperKey(x) ==
    IF x.Paper_Number = <<>> \/ x.Paper_Number[1] = 0 THEN 0 ELSE x.Paper_Number[1]

\* list.sort(key=key, reverse=True): the sort is stable, so x goes after
\* every element whose key is at least its own.
RECURSIVE InsertDescending(_, _)
InsertDescending(sorted, x) ==
    IF sorted = <<>> THEN <<x>>
    ELSE IF PaperKey(Head(sorted)) >= PaperKey(x)
         THEN <<Head(sorted)>> \o InsertDescending(Tail(sorted), x)
         ELSE <<x>> \o sorted

\* list.sort(key=lambda x: x.get("Paper_Number") or 0, reverse=True)
RECURSIVE SortDescending(_)
SortDescending(list) ==
    IF list = <<>> THEN <<>>
    ELSE InsertDescending(SortDescending(SubSeq(list, 1, Len(list) - 1)), list[Len(list)])

IsSelected(p) == p.Category = "Selected"
IsOther(p) == p.Category # "Selected"

\* sync_publications sorts the list it built.
SortPublications ==
    /\ spc = "built"
    /\ pubs' = SortDescending(pubs)
    /\ spc' = "synced"
    /\ UNCHANGED <<selected, other>>
    /\ UNCHANGED sortFrame

\* generate_latex_cv splits the list by category and sorts each part.
SortSelectedAndOther ==
    /\ spc = "synced"
    /\ selected' = SortDescending(SelectSeq(pubs, IsSelected))
    /\ other' = SortDescending(SelectSeq(pubs, IsOther))
    /\ spc' = "done"
    /\ UNCHANGED pubs
    /\ UNCHANGED sortFrame

SortNext == SortPublications \/ SortSelectedAndOther

SpecSort == Init("sort") /\ [][SortNext]_vars

(***************************************************************************)
(* The sorts by Order                                                      *)
(***************************************************************************)

\* A mutant of OrderKey: a missing Order sorts as a large number.
OrderKeyMissingHigh(x) == IF x.Order = <<>> THEN 1000 ELSE x.Order[1]

\* key=lambda x: x.get("Order") or 0
OrderKey(x) == IF x.Order = <<>> \/ x.Order[1] = 0 THEN 0 ELSE x.Order[1]

\* list.sort(key=key): the sort is stable, so x goes after every element
\* whose key is at most its own.
RECURSIVE InsertAscending(_, _)
InsertAscending(sorted, x) ==
    IF sorted = <<>> THEN <<x>>
    ELSE IF OrderKey(Head(sorted)) <= OrderKey(x)
         THEN <<Head(sorted)>> \o InsertAscending(Tail(sorted), x)
         ELSE <<x>> \o sorted

\* items.sort(key=lambda x: x.get("Order") or 0)
RECURSIVE SortAscending(_)
SortAscending(list) ==
    IF list = <<>> THEN <<>>
    ELSE InsertAscending(SortAscending(SubSeq(list, 1, Len(list) - 1)), list[Len(list)])

\* A sync function sorts the items it built and returns them.
SortItems(fn) ==
    /\ opc = "built" /\ sync_fn = fn
    /\ ordered' = SortAscending(built)
    /\ opc' = "returned"
    /\ UNCHANGED <<sync_fn, built>>
    /\ UNCHANGED orderFrame

SortEducation == SortItems("sync_education")
SortProjects == SortItems("sync_projects")
SortCvOnly == SortItems("sync_cv_only")

OrderNext == SortEducation \/ SortProjects \/ SortCvOnly

SpecOrder == Init("order") /\ [][OrderNext]_vars

(***************************************************************************)
(* Properties of the extractors                                            *)
(***************************************************************************)

\* The keys under which each extractor looks for its typed value.
ValueKeys(name) ==
    CASE name = "get_text"     -> {"rich_text", "title"}
      [] name = "get_number"   -> {"number"}
      [] name = "get_select"   -> {"select"}
      [] name = "get_checkbox" -> {"checkbox"}
      [] name = "get_url"      -> {"url"}
      [] name = "get_date"     -> {"date"}
      [] name = "get_email"    -> {"email"}

\* The documented default of each extractor.
DocumentedDefault(name) ==
    CASE name = "get_number"   -> PyNone
      [] name = "get_checkbox" -> PyBool(FALSE)
      [] OTHER                 -> PyStr(<<>>)

\* The field is missing (no property, or a bag without the typed value) or
\* its typed value is null.
MissingOrNull(name, p) ==
    \/ p = PyNone
    \/ \A k \in ValueKeys(name) : k \notin DOMAIN p.v \/ p.v[k] = PyNone

\* C6: every extractor, applied to a property whose field is missing or
\* whose typed value is null, returns its documented default and does not
\* fail.
C6_ExtractorsDefault ==
    (npc = "done" /\ MissingOrNull(extractor, prop))
        => extracted = DocumentedDefault(extractor)

(***************************************************************************)
(* Properties of escape_latex                                              *)
(***************************************************************************)

ReservedSymbols == {"&", "%", "#", "_", "~", "α", "β", "γ", "δ", "μ"}

\* The reserved symbols whose escape still contains the symbol.
BackslashEscaped == {"&", "%", "#", "_"}

HasAny(t, S) == \E n \in 1..Len(t) : t[n] \in S

\* Every reserved symbol of t stands right after a backslash.
NoRawReserved(t) ==
    \A n \in 1..Len(t) : t[n] \in ReservedSymbols => (n > 1 /\ t[n - 1] = "\\")

\* C8 as stated: escape_latex applied to already-escaped text that holds no
\* raw reserved symbol returns it unchanged, and a text with none of the
\* reserved symbols is returned unchanged.
C8_IdempotentOnEscaped ==
    epc = "done" =>
        /\ NoRawReserved(escaped_once) => escaped_twice = escaped_once
        /\ ~HasAny(raw_text, ReservedSymbols) => escaped_once = raw_text

\* C8 amended: a text with none of the reserved symbols is returned
\* unchanged; applied to its own result, escape_latex returns that result
\* unchanged exactly when the text held none of & % # _, whose escapes
\* still contain the symbol and are escaped again.
C8_IdempotentWithoutBackslashEscapes ==
    epc = "done" =>
        /\ ~HasAny(raw_text, ReservedSymbols) => escaped_once = raw_text
        /\ escaped_twice = escaped_once <=> ~HasAny(raw_text, BackslashEscaped)

\* C8 witness: a text with a tilde was escaped, and escaping the result
\* again changed nothing.
C8_Witness ==
    /\ epc = "done"
    /\ HasAny(raw_text, {"~"}) /\ HasAny(raw_text, {"a"})
    /\ escaped_once # raw_text
    /\ escaped_twice = escaped_once

\* The escape sequence of each reserved character; every other character
\* stands for itself.
EscapeOf(c) ==
    CASE c = "&" -> <<"\\", "&">>
      [] c = "%" -> <<"\\", "%">>
      [] c = "#" -> <<"\\", "#">>
      [] c = "_" -> <<"\\", "_">>
      [] c = "~" -> <<"\\", "t", "e", "x", "t", "a", "s", "c", "i", "i", "t", "i", "l", "d", "e", "{", "}">>
      [] c = "α" -> <<"$", "\\", "a", "l", "p", "h", "a", "$">>
      [] c = "β" -> <<"$", "\\", "b", "e", "t", "a", "$">>
      [] c = "γ" -> <<"$", "\\", "g", "a", "m", "m", "a", "$">>
      [] c = "δ" -> <<"$", "\\", "d", "e", "l", "t", "a", "$">>
      [] c = "μ" -> <<"$", "\\", "m", "u", "$">>
      [] OTHER -> <<c>>

\* The substitution of every character at once.
RECURSIVE Simultaneous(_)
Simultaneous(t) == IF t = <<>> THEN <<>> ELSE EscapeOf(Head(t)) \o Simultaneous(Tail(t))

\* C13: the result of escape_latex is the text in which every reserved
\* character is replaced once by its escape sequence and every other
\* character is copied: no replacement matches what an earlier one inserted.
C13_SequentialIsSimultaneous ==
    epc \in {"once", "done"} => escaped_once = Simultaneous(raw_text)

\* A text of three different reserved characters, the first of the table
\* among them, has been escaped.
C13_Witness ==
    /\ epc = "once"
    /\ HasAny(raw_text, {"&"}) /\ HasAny(raw_text, {"_"}) /\ HasAny(raw_text, {"~"})
    /\ Len(escaped_once) > Len(raw_text)

(***************************************************************************)
(* Properties of the publication sorts                                     *)
(***************************************************************************)

\* Descending by Paper_Number, the records without one after all others.
DescendingMissingLast(list) ==
    \A a, b \in 1..Len(list) :
        a < b =>
            /\ (list[a].Paper_Number # <<>> /\ list[b].Paper_Number # <<>>)
                   => list[a].Paper_Number[1] >= list[b].Paper_Number[1]
            /\ ~(list[a].Paper_Number = <<>> /\ list[b].Paper_Number # <<>>)

\* C7: the list sync_publications returns, and the Selected and Other lists
\* of generate_latex_cv, are in descending order of Paper_Number with the
\* records that have none after all the records that have one.
C7_PublicationsDescendingMissingLast ==
    /\ spc \in {"synced", "done"} => DescendingMissingLast(pubs)
    /\ spc = "done" => DescendingMissingLast(selected) /\ DescendingMissingLast(other)

(***************************************************************************)
(* Properties of parse_body and of the intro                               *)
(***************************************************************************)

\* The lines of the body text, and how many of them parse_body has read.
AllLines == Split(body_text, "\n")
ParseRead == IF ppc = "parse" THEN line_no ELSE Len(AllLines)
ParseStarted == ppc \in {"parse", "parsed", "intro", "done"}
ParseReturned == ppc \in {"parsed", "intro", "done"}

\* The subtopics opened so far, closed or still open, in order.
Opened == IF ppc = "parse" THEN subtopics \o current ELSE subtopics

\* The numbers of the lines among the first n that satisfy Is, in order.
RECURSIVE LinesWhere(_, _)
LinesWhere(Is(_), n) ==
    IF n = 0 THEN <<>>
    ELSE IF Is(AllLines[n]) THEN Append(LinesWhere(Is, n - 1), n)
    ELSE LinesWhere(Is, n - 1)

WrittenHeading(line) == StartsWith(line, HeadingMark)
StrippedHeading(line) == StartsWith(Strip(line), HeadingMark)

SubtopicFields == {"title", "image", "caption", "link"}

\* Whether a line starting with mark (once stripped) lies after the k-th
\* heading line and before the next one.
Supplied(k, mark) ==
    LET h     == LinesWhere(StrippedHeading, ParseRead)
        first == h[k] + 1
        last  == IF k < Len(h) THEN h[k + 1] - 1 ELSE ParseRead
    IN  \E n \in first..last : StartsWith(Strip(AllLines[n]), mark)

\* C9: every subtopic parse_body builds has the four sub-fields title,
\* image, caption and link, each a text, and image, caption and link are
\* empty when the text supplied no such line for the subtopic.
C9_FourFieldsAlways ==
    ParseStarted =>
        \A k \in 1..Len(Opened) :
            /\ DOMAIN Opened[k] = SubtopicFields
            /\ \A f \in SubtopicFields : Opened[k][f] \in Seq({Opened[k][f][n] : n \in 1..Len(Opened[k][f])})
            /\ ~Supplied(k, ImageMark) => Opened[k].image = <<>>
            /\ ~Supplied(k, CaptionMark) => Opened[k].caption = <<>>
            /\ ~Supplied(k, LinkMark) => Opened[k].link = <<>>

\* C9 witness: parse_body returned a subtopic with a caption and nothing
\* else, after one with no field supplied.
C9_Witness ==
    /\ ppc = "parsed"
    /\ Len(subtopics) = 2
    /\ subtopics[1] = [title |-> <<"A">>, image |-> <<>>, caption |-> <<>>, link |-> <<>>]
    /\ subtopics[2] = [title |-> <<"B">>, image |-> <<>>, caption |-> <<"c">>, link |-> <<>>]

\* The marker of each field a line can set.
FieldMarks == [image |-> ImageMark, caption |-> CaptionMark, link |-> LinkMark]

\* C14: a turn of parse_body's loop on a line that begins with image:,
\* caption: or link: leaves the list of closed subtopics and the media
\* highlights as they are; with no subtopic open it leaves none open, and
\* with one open it changes of it only the field the line names, which
\* becomes the rest of the line, stripped.
C14_FieldLineChangesOnlyItsField ==
    [][(ppc = "parse" /\ line_no' = line_no + 1) =>
          LET line == lines[line_no + 1]
          IN  \A f \in DOMAIN FieldMarks :
                  StartsWith(line, FieldMarks[f]) =>
                      /\ subtopics' = subtopics
                      /\ media_highlights' = media_highlights
                      /\ current' = IF current = <<>> THEN <<>>
                                    ELSE <<[current[1] EXCEPT
                                              ![f] = Strip(SubSeq(line, Len(FieldMarks[f]) + 1,
                                                                  Len(line)))]>>]_vars

\* An image line has been read with one subtopic closed and one open, and
\* has set the image of the open one.
C14_Witness ==
    /\ ppc = "parse" /\ line_no = 3
    /\ StartsWith(lines[3], ImageMark)
    /\ Len(subtopics) = 1 /\ subtopics[1].image = <<>>
    /\ current # <<>> /\ current[1].image = <<"i">>

\* The lines among the first n, stripped, that are not empty.
RECURSIVE KeptLines(_)
KeptLines(n) ==
    IF n = 0 THEN <<>>
    ELSE IF Strip(AllLines[n]) # <<>> THEN Append(KeptLines(n - 1), Strip(AllLines[n]))
    ELSE KeptLines(n - 1)

\* How many lines precede the first line that satisfies Is (all, if none).
BeforeFirst(Is(_)) ==
    LET at == {n \in 1..Len(AllLines) : Is(AllLines[n])}
    IN  IF at = {} THEN Len(AllLines) ELSE (CHOOSE n \in at : \A m \in at : n <= m) - 1

WrittenMarker(line) == StartsWith(line, MediaMark) \/ StartsWith(line, HeadingMark)
StrippedMarker(line) == StartsWith(Strip(line), MediaMark) \/ StartsWith(Strip(line), HeadingMark)

Emitted(what, k) == Cardinality({n \in 1..k : result[n] = what})

\* C1: in the output of render_cv_section_body no list close is emitted
\* without a preceding unmatched list open, and once the whole input is
\* rendered the list opens and the list closes are equal in number, so no
\* list block is left open.
C1_ListBalance ==
    /\ \A k \in 0..Len(result) : Emitted(ListClose, k) <= Emitted(ListOpen, k)
    /\ rpc = "done" => Emitted(ListOpen, Len(result)) = Emitted(ListClose, Len(result))

\* C1 witness: a rendered section in which two lists were opened and closed.
C1_Witness ==
    /\ rpc = "done"
    /\ Emitted(ListOpen, Len(result)) = 2
    /\ Emitted(ListClose, Len(result)) = 2

\* The first line after index k (1-based) that is not blank, 0 if none.
RECURSIVE NextNonBlank(_, _)
NextNonBlank(rl, k) ==
    IF k >= Len(rl) THEN 0
    ELSE IF Strip(rl[k + 1]) # <<>> THEN k + 1
    ELSE NextNonBlank(rl, k + 1)

HasTerminator(line) == line # <<>> /\ line[Len(line)] = Terminator

\* The line just rendered is raw_lines[i]; a text line's output is the last
\* line of result.
JustRendered == rpc = "loop" /\ i >= 1

Added == SubSeq(result', Len(result) + 1, Len(result'))

\* The three lines of control markup.
ControlLines == {ListOpen, ListClose, VSpace}

\* C15: a turn of the loop on a line that is neither blank nor a bullet,
\* taken with a list open, emits the list close, then the spacing directive,
\* then the line's own text; no other step emits the directive; a turn on a
\* blank line emits the list close alone if a list is open and nothing if
\* none is, and leaves no list open.
C15_SpacingOnlyAfterListBeforeText ==
    [][/\ SubSeq(result', 1, Len(result)) = result
       /\ (rpc = "loop" /\ i' = i + 1) =>
             LET s == Strip(raw_lines[i + 1])
             IN  IF s = <<>>
                 THEN /\ Added = (IF in_list THEN <<ListClose>> ELSE <<>>)
                      /\ ~in_list'
                 ELSE IF ~StartsWith(s, Dash) /\ in_list
                 THEN /\ Len(Added) = 3
                      /\ Added[1] = ListClose
                      /\ Added[2] = VSpace
                      /\ Added[3] \notin ControlLines
                      /\ StartsWith(Added[3], render_line_with_bold(s))
                 ELSE \A n \in 1..Len(Added) : Added[n] # VSpace
       /\ i' = i => \A n \in 1..Len(Added) : Added[n] # VSpace]_vars

\* A text line has just been rendered after a list: the output ends with the
\* list close, the spacing directive and the text.
C15_Witness ==
    /\ rpc = "loop" /\ i >= 2 /\ ~in_list
    /\ Len(result) >= 5
    /\ result[Len(result) - 2] = ListClose
    /\ result[Len(result) - 1] = VSpace
    /\ result[Len(result)] \notin ControlLines

\* An emitted line that is an item of a list, and one that is a text.
IsItemLine(line) == line # <<>> /\ line[1] = ItemPrefix
IsTextLine(line) == line \notin ControlLines /\ ~IsItemLine(line)

\* How many lists are open after the first k emitted lines.
Depth(k) == Emitted(ListOpen, k) - Emitted(ListClose, k)

\* C17: after every emitted line the number of open lists is 0 or 1, and it
\* is the flag in_list; a list open, a text line and a spacing directive are
\* emitted only with no list open, and an item only with one open.
C17_DepthZeroOrOne ==
    /\ \A k \in 0..Len(result) : Depth(k) \in {0, 1}
    /\ Depth(Len(result)) = IF in_list THEN 1 ELSE 0
    /\ \A n \in 1..Len(result) :
           /\ result[n] = ListOpen => Depth(n - 1) = 0
           /\ IsItemLine(result[n]) => Depth(n - 1) = 1
           /\ IsTextLine(result[n]) => Depth(n - 1) = 0
           /\ result[n] = VSpace => Depth(n - 1) = 0

\* A rendered section with a list, a text after it, and a second list.
C17_Witness ==
    /\ rpc = "done"
    /\ Len(result) = 8
    /\ result[1] = ListOpen /\ IsItemLine(result[2])
    /\ result[3] = ListClose /\ result[4] = VSpace /\ IsTextLine(result[5])
    /\ result[6] = ListOpen /\ IsItemLine(result[7]) /\ result[8] = ListClose

\* The numbers of the lines among the first n of the input that are not
\* blank, in order.
RECURSIVE NonBlankUpTo(_)
NonBlankUpTo(n) ==
    IF n = 0 THEN <<>>
    ELSE IF Strip(raw_lines[n]) # <<>> THEN Append(NonBlankUpTo(n - 1), n)
    ELSE NonBlankUpTo(n - 1)

\* The emitted lines that are not control markup, in order.
IsContentLine(line) == line \notin ControlLines
ContentLines == SelectSeq(result, IsContentLine)

AscendingByKey(list) ==
    \A m, n \in 1..Len(list) : m < n => OrderKey(list[m]) <= OrderKey(list[n])

\* The items of each key are the same, in the same order, in both lists.
SameItemsPerKey(l1, l2) ==
    /\ Len(l1) = Len(l2)
    /\ \A k \in {OrderKey(l2[n]) : n \in 1..Len(l2)} :
          LET HasKey(x) == OrderKey(x) = k
          IN  SelectSeq(l1, HasKey) = SelectSeq(l2, HasKey)

\* Every item of the list without an Order is before every item with one
\* that satisfies Counts.
MissingBefore(list, Counts(_)) ==
    \A m, n \in 1..Len(list) :
        (list[m].Order = <<>> /\ list[n].Order # <<>> /\ Counts(list[n].Order[1])) => m < n

AnyNumber(n) == TRUE
Positive(n) == n > 0

\* C11, as stated: the returned list is in ascending order of Order with a
\* missing Order as 0, and every item without an Order is before all the
\* items that have one.
C11_AscendingMissingFirst ==
    opc = "returned" =>
        /\ AscendingByKey(ordered)
        /\ MissingBefore(ordered, AnyNumber)

\* C11, amended: the returned list holds the items built, in ascending order
\* of Order with a missing Order as 0, items of equal key in the order
\* built; so every item without an Order is before all the items whose
\* Order is positive.
C11_AscendingMissingAsZero ==
    opc = "returned" =>
        /\ AscendingByKey(ordered)
        /\ SameItemsPerKey(ordered, built)
        /\ MissingBefore(ordered, Positive)

\* A list built with a positive Order first and a missing one last, sorted.
C11_Witness ==
    /\ opc = "returned"
    /\ Len(built) = 3
    /\ built[1].Order = <<2>> /\ built[3].Order = <<>>
    /\ ordered # built

(***************************************************************************)
(* Properties of get_page_body_text                                        *)
(***************************************************************************)

\* The block types that bear text, and what each puts before its text.
TextBearing == {"paragraph", "heading_1", "heading_2", "heading_3",
                "bulleted_list_item", "numbered_list_item"}
LinePrefix(btype) ==
    CASE btype = "heading_1" -> <<"#", " ">>
      [] btype = "heading_2" -> <<"#", "#", " ">>
      [] btype = "heading_3" -> <<"#", "#", "#", " ">>
      [] btype = "bulleted_list_item" -> <<"-", " ">>
      [] btype = "numbered_list_item" -> <<"1", ".", " ">>
      [] OTHER -> <<>>

\* The runs of a rich text, each bold one between pairs of asterisks and
\* each other one as it is.
RECURSIVE BoldWrapped(_)
BoldWrapped(rich_text) ==
    IF rich_text = <<>> THEN <<>>
    ELSE LET rt == Head(rich_text)
             wrapped == IF IsBold(rt) THEN <<"*", "*">> \o rt.plain_text \o <<"*", "*">>
                        ELSE rt.plain_text
         IN  wrapped \o BoldWrapped(Tail(rich_text))

\* The line of a block whose bold runs are wrapped.
WrappedLine(block) ==
    IF block.type \in TextBearing
    THEN LinePrefix(block.type) \o BoldWrapped(block[block.type].rich_text)
    ELSE <<>>

\* C12, as stated: the text returned has, for every block of a type that
\* bears text, the block's runs with each bold run wrapped as **text** and
\* each other run as it is.
C12_BoldWrappedInEveryBlock ==
    bpc = "returned" =>
        body = Join([n \in 1..Len(blocks) |-> WrappedLine(blocks[n])], <<"\n">>)

(***************************************************************************)
(* Properties of the pagination loops                                      *)
(***************************************************************************)

\* The response says there is more.
SaysMore(response) == "has_more" \in DOMAIN response /\ response.has_more

\* The calls made so far follow one another: the first carries no cursor,
\* and each later one was made after a response that said there was more,
\* with the cursor of that response.
Chained(calls, Resp(_)) ==
    calls # <<>> =>
        /\ calls[1] = None
        /\ \A k \in 1..(Len(calls) - 1) :
               /\ SaysMore(Resp(calls[k]))
               /\ calls[k + 1] = Resp(calls[k]).next_cursor

\* The loop has returned after a response that did not say there was more,
\* having made as many calls as there are pages.
StoppedAtLast(calls, Resp(_), pages) ==
    /\ calls # <<>>
    /\ ~SaysMore(Resp(calls[Len(calls)]))
    /\ Len(calls) = Len(pages)

QueryResponse(cursor) == Response(database_id, cursor)
ListingResponse(cursor) == BlocksResponse(page_id, cursor)

\* C16: in query_all and in get_page_body_text the first call carries no
\* cursor, each later call carries the next_cursor of the response before
\* it, none is made after a response whose has_more is false or absent, a
\* loop that returns has made one call per page of the store, and each loop
\* ends.
C16_OneCallPerPage ==
    /\ [](qpc # "idle" => Chained(queries, QueryResponse))
    /\ [](qpc = "returned" => StoppedAtLast(queries, QueryResponse, store[database_id]))
    /\ [](bpc # "idle" => Chained(listings, ListingResponse))
    /\ [](bpc = "returned" => StoppedAtLast(listings, ListingResponse, block_store[page_id]))
    /\ <>(qpc \in {"returned", "raised"})
    /\ [](qpc = "returned" => <>(bpc \in {"returned", "raised"}))

\* Both loops have returned, query_all after three calls and
\* get_page_body_text after two.
C16_Witness ==
    /\ qpc = "returned" /\ bpc = "returned"
    /\ queries = <<None, 2, 3>>
    /\ listings = <<None, 2>>

====
